---- MODULE Spec2Model ----
(***************************************************************************)
(* Model of the trade reconciliation pipeline.                             *)
(*                                                                         *)
(*   src/src/reconcile.py  run_reconciliation: summary statistics and the  *)
(*                         critical-alert filter over the joined dataset   *)
(*   src/src/alerts.py     AlertManager: console report, optional e-mail   *)
(*   src/src/ingest.py     transform_chunk / load_chunk / run_pipeline:    *)
(*                         chunked ingestion with a keyed upsert           *)
(*                                                                         *)
(* Strings whose content the code inspects (status texts, CSV cells) are   *)
(* sequences of one-character strings, so that substring tests and string  *)
(* repetition are computed rather than assumed.  Amounts are integers      *)
(* (minor units).                                                          *)
(***************************************************************************)
EXTENDS Integers, Sequences, FiniteSets, TLC

\* ------------------------------------------------------------------------
\* Bounds of the model
\* ------------------------------------------------------------------------
MaxReconRows == 2      \* rows of the reconciliation dataset
MaxDiff      == 2      \* |value_diff| ranges over -MaxDiff..MaxDiff
MaxThreshold == 3      \* ALERT_THRESHOLD ranges over 0..MaxThreshold

\* ------------------------------------------------------------------------
\* Generic helpers
\* ------------------------------------------------------------------------
Abs(x) == IF x < 0 THEN -x ELSE x

\* Python `sub in s` / pandas Series.str.contains(sub) on one value
Contains(s, sub) ==
    \E i \in 1..(Len(s) - Len(sub) + 1) : SubSeq(s, i, i + Len(sub) - 1) = sub

\* all sequences over S of length 0..n
SeqsUpTo(S, n) == UNION {[1..k -> S] : k \in 0..n}

RECURSIVE SeriesSum(_)
\* pandas Series.sum() on a numeric column
SeriesSum(col) ==
    IF col = <<>> THEN 0 ELSE Head(col) + SeriesSum(Tail(col))

\* ------------------------------------------------------------------------
\* Status texts produced by the reconciliation view
\* ------------------------------------------------------------------------
S_MATCHED     == <<"M","A","T","C","H","E","D">>
S_DISCREPANCY == <<"D","I","S","C","R","E","P","A","N","C","Y">>
S_MISSING_IN_BANK ==
    <<"M","I","S","S","I","N","G"," ","I","N"," ","B","A","N","K">>
S_MISSING_IN_EXCHANGE ==
    <<"M","I","S","S","I","N","G"," ","I","N"," ","E","X","C","H","A","N","G","E">>
T_MISSING     == <<"M","I","S","S","I","N","G">>

Statuses == {S_MATCHED, S_DISCREPANCY, S_MISSING_IN_BANK, S_MISSING_IN_EXCHANGE}

VARIABLES
    view,             \* rows returned by SELECT * FROM stg.reconciliation_report
    threshold,        \* ALERT_THRESHOLD
    recon_pc,         \* "start" | "done" | "failed" | "query_failed" |
                      \* "called" | "call_raised"
    summary_stats,    \* the summary dict
    critical_alerts,  \* the frame handed to AlertManager.send_alerts
    out,              \* what the run logged, in order
    email_attempts,   \* calls of send_email_alerts
    email_flag,     \* the flag given to send_alerts
    email_result      \* what send_email_alerts does when it is called

recon_vars == <<view, threshold, recon_pc, summary_stats, critical_alerts,
                out, email_attempts, email_flag, email_result>>

VARIABLES
    catalog,       \* the rows source files are made of
    run_limit,     \* invocations of run_pipeline that will be made
    file,          \* the source file of the current run: [exists, rows]
    chunk_size,    \* CHUNK_SIZE
    ts_default,    \* column default of updated_at: "NULL" or "NOW"
    db,            \* stg.clearing_trades as other sessions see it
    txn,           \* the table as the open transaction sees it
    pc,            \* "idle" | "read" | "exec" | "exited"
    chunk_no,      \* chunks taken from the reader in this run
    processed,     \* processed_chunk
    row_no,        \* rows of the chunk executed in the open transaction
    total_rows,
    exit_code,     \* exit status of the process
    ingest_log,    \* what the run logged, in order
    now,           \* start time of the latest transaction
    runs,          \* invocations so far
    \* history
    db_start,      \* db when the current run started
    same_file,     \* the previous run was given the same, unchanged file
    prev_ok,       \* the previous run read its file and persisted every chunk
    fault,         \* a storage failure was injected in this run
    failed_chunk   \* chunk during which the run was aborted, 0 if none

ingest_vars == <<catalog, run_limit, file, chunk_size, ts_default, db, txn, pc, chunk_no, processed,
                 row_no, total_rows, exit_code, ingest_log, now, runs,
                 db_start, same_file, prev_ok, fault, failed_chunk>>

vars == <<recon_vars, ingest_vars>>

\* ------------------------------------------------------------------------
\* reconcile.py
\* ------------------------------------------------------------------------
\* one row of the view; idx is the DataFrame index label, kept by filtering
ReconRows == [status : Statuses, amount_diff : (-MaxDiff)..MaxDiff]

Indexed(rows) == [i \in 1..Len(rows) |-> [idx |-> i,
                                            status |-> rows[i].status,
                                            amount_diff |-> rows[i].amount_diff]]

AbsColumn(frame) == [i \in 1..Len(frame) |-> Abs(frame[i].amount_diff)]

\* defective variant: strict comparison with the threshold
IsCriticalStrict(row, thr) ==
    (Abs(row.amount_diff) > thr) \/ Contains(row.status, T_MISSING)
\* the boolean mask of step 4
IsCritical(row, thr) ==
    (Abs(row.amount_diff) >= thr) \/ Contains(row.status, T_MISSING)

CriticalAlerts(df_mapped, thr) ==
    LET Mask(row) == IsCritical(row, thr) IN SelectSeq(df_mapped, Mask)

\* defective variant: the total is taken over the critical subset
SummaryStatsOfCritical(df_mapped, thr) ==
    LET Is(s)  == LET M(row) == row.status = s IN Len(SelectSeq(df_mapped, M))
    IN  [total_contracts  |-> Len(df_mapped),
         matched          |-> Is(S_MATCHED),
         discrepancies    |-> Is(S_DISCREPANCY),
         missing_trades   |-> Is(S_MISSING_IN_BANK),
         missing_invoices |-> Is(S_MISSING_IN_EXCHANGE),
         critical_alerts  |-> Len(CriticalAlerts(df_mapped, thr)),
         total_discrepancy_amount |->
             SeriesSum(AbsColumn(CriticalAlerts(df_mapped, thr)))]
\* the summary dict of step 3, with critical_alerts as set in step 4
SummaryStats(df_mapped, thr) ==
    LET Is(s)  == LET M(row) == row.status = s IN Len(SelectSeq(df_mapped, M))
    IN  [total_contracts  |-> Len(df_mapped),
         matched          |-> Is(S_MATCHED),
         discrepancies    |-> Is(S_DISCREPANCY),
         missing_trades   |-> Is(S_MISSING_IN_BANK),
         missing_invoices |-> Is(S_MISSING_IN_EXCHANGE),
         critical_alerts  |-> Len(CriticalAlerts(df_mapped, thr)),
         total_discrepancy_amount |-> SeriesSum(AbsColumn(df_mapped))]

\* ------------------------------------------------------------------------
\* email_alerts.py
\* ------------------------------------------------------------------------
\* what can happen inside send_email_alerts: the sender is disabled
\* (EMAIL_ENABLED), the SMTP credentials are missing, the message is
\* delivered, building or delivering it fails (caught by
\* EmailAlertSender.send_alerts), or an exception escapes the function
EmailOutcomes == {"disabled", "no_credentials", "sent", "smtp_failed", "raised"}

\* send_email_alerts(alerts_df, summary): what it logs and whether an
\* exception leaves it
SendEmailAlerts(alerts_df, summary, outcome) ==
    IF outcome = "raised" THEN [log |-> <<>>, raised |-> TRUE]
    ELSE IF outcome = "disabled"
    THEN [log |-> <<"EMAIL_DISABLED">>, raised |-> FALSE]
    ELSE IF alerts_df = <<>>
    THEN [log |-> <<"NO_ALERTS_TO_EMAIL">>, raised |-> FALSE]
    ELSE IF outcome = "no_credentials"
    THEN [log |-> <<"SMTP_CREDENTIALS_MISSING">>, raised |-> FALSE]
    ELSE IF outcome = "sent"
    THEN [log |-> <<"EMAIL_SENT">>, raised |-> FALSE]
    ELSE [log |-> <<"EMAIL_FAILED">>, raised |-> FALSE]

\* ------------------------------------------------------------------------
\* alerts.py
\* ------------------------------------------------------------------------
\* AlertManager._add_business_context: the lines it logs for one row
T_BANK     == <<"B","A","N","K">>
T_EXCHANGE == <<"E","X","C","H","A","N","G","E">>

\* defective variant: every missing-side status is taken for a missing bank
\* record
AddBusinessContextMissingOnly(row) ==
    IF Contains(row.status, T_MISSING)
    THEN <<"RISK_LEAKAGE">>
    ELSE IF row.status = S_DISCREPANCY
    THEN <<"VALUE_MISMATCH">>
    ELSE <<>>
AddBusinessContext(row) ==
    IF Contains(row.status, T_MISSING) /\ Contains(row.status, T_BANK)
    THEN <<"RISK_LEAKAGE">>
    ELSE IF Contains(row.status, T_MISSING) /\ Contains(row.status, T_EXCHANGE)
    THEN <<"RISK_OVERPAYMENT">>
    ELSE IF row.status = S_DISCREPANCY
    THEN <<"VALUE_MISMATCH">>
    ELSE <<>>

RECURSIVE LogRows(_)
LogRows(alerts_df) ==
    IF alerts_df = <<>> THEN <<>>
    ELSE <<"ALERT_ROW">> \o AddBusinessContext(Head(alerts_df))
         \o LogRows(Tail(alerts_df))

\* AlertManager._log_console_alerts
LogConsoleAlerts(alerts_df) == <<"CRITICAL_ALERTS_HEADER">> \o LogRows(alerts_df)

\* None, as the summary argument of send_alerts
NoSummary == <<>>

\* Python truth value of the summary argument (None or a dict)
Truthy(summary) == DOMAIN summary # {}

\* defective variant: the e-mail is tried before the frame is looked at
SendAlertsEmailFirst(alerts_df, summary, enable_email, email_outcome) ==
    LET mail == SendEmailAlerts(alerts_df, summary, email_outcome)
        tried == enable_email /\ Truthy(summary)
        maillog == IF ~tried THEN <<>>
                   ELSE IF mail.raised THEN <<"EMAIL_ALERTS_FAILED">>
                   ELSE mail.log
    IN  [log |-> maillog \o (IF alerts_df = <<>> THEN <<"NO_CRITICAL_ALERTS">>
                             ELSE LogConsoleAlerts(alerts_df)),
         emails |-> IF tried THEN 1 ELSE 0,
         raised |-> FALSE]
\* defective variant: no handler around send_email_alerts
SendAlertsNoHandler(alerts_df, summary, enable_email, email_outcome) ==
    IF alerts_df = <<>>
    THEN [log |-> <<"NO_CRITICAL_ALERTS">>, emails |-> 0, raised |-> FALSE]
    ELSE IF enable_email /\ Truthy(summary)
    THEN LET mail == SendEmailAlerts(alerts_df, summary, email_outcome)
         IN  [log |-> LogConsoleAlerts(alerts_df) \o mail.log,
              emails |-> 1,
              raised |-> mail.raised]
    ELSE [log |-> LogConsoleAlerts(alerts_df), emails |-> 0, raised |-> FALSE]
\* AlertManager.send_alerts, one call: what it logs, how often it calls
\* send_email_alerts, and whether an exception leaves it
SendAlerts(alerts_df, summary, enable_email, email_outcome) ==
    IF alerts_df = <<>>
    THEN [log |-> <<"NO_CRITICAL_ALERTS">>, emails |-> 0, raised |-> FALSE]
    ELSE IF enable_email /\ Truthy(summary)
    THEN LET mail == SendEmailAlerts(alerts_df, summary, email_outcome)
         IN  [log |-> LogConsoleAlerts(alerts_df)
                      \o (IF mail.raised THEN <<"EMAIL_ALERTS_FAILED">>
                          ELSE mail.log),
              emails |-> 1,
              raised |-> FALSE]
    ELSE [log |-> LogConsoleAlerts(alerts_df), emails |-> 0, raised |-> FALSE]

\* AlertManager.print_summary
PrintSummary(summary) == <<"RECONCILIATION_SUMMARY">>

\* ------------------------------------------------------------------------
\* run_reconciliation, one call
\* ------------------------------------------------------------------------
\* value of summary_stats before run_reconciliation has built the dict
NoStats == [total_contracts |-> 0, matched |-> 0, discrepancies |-> 0,
            missing_trades |-> 0, missing_invoices |-> 0,
            critical_alerts |-> 0, total_discrepancy_amount |-> 0]

ReconInit ==
    /\ view \in SeqsUpTo(ReconRows, MaxReconRows)
    /\ threshold \in 0..MaxThreshold
    /\ recon_pc = "start"
    /\ summary_stats = NoStats
    /\ critical_alerts = <<>>
    /\ out = <<>>
    /\ email_attempts = 0
    /\ email_flag = FALSE
    /\ email_result = "none"

\* defective variant: the summary is printed although the query failed
OnQueryFailurePrintsSummary ==
    <<"RECONCILIATION_FAILED">> \o PrintSummary(NoStats)
\* the `except Exception` of run_reconciliation: log the error, return
OnQueryFailure == <<"RECONCILIATION_FAILED">>

\* pd.read_sql raises: caught by the outer handler, nothing else happens
RunReconciliationQueryFails ==
    /\ UNCHANGED ingest_vars
    /\ recon_pc = "start"
    /\ recon_pc' = "query_failed"
    /\ out' = out \o <<"STARTING_RECONCILIATION">> \o OnQueryFailure
    /\ UNCHANGED <<view, threshold, summary_stats, critical_alerts,
                   email_attempts, email_flag, email_result>>

RunReconciliation ==
    /\ UNCHANGED ingest_vars
    /\ recon_pc = "start"
    /\ \E outcome \in EmailOutcomes :
        LET df_mapped == Indexed(view)
            stats     == SummaryStats(df_mapped, threshold)
            crit      == CriticalAlerts(df_mapped, threshold)
            sent      == SendAlerts(crit, stats, TRUE, outcome)
        IN  /\ summary_stats' = stats
            /\ critical_alerts' = crit
            /\ email_attempts' = email_attempts + sent.emails
            /\ email_result' = outcome
            /\ IF sent.raised
               THEN /\ out' = out \o <<"STARTING_RECONCILIATION">> \o sent.log
                                  \o <<"RECONCILIATION_FAILED">>
                    /\ recon_pc' = "failed"
               ELSE /\ out' = out \o <<"STARTING_RECONCILIATION">> \o sent.log
                                  \o PrintSummary(stats)
                    /\ recon_pc' = "done"
    /\ email_flag' = TRUE
    /\ UNCHANGED <<view, threshold>>

\* AlertManager().send_alerts called on its own, as the tests do: any of the
\* frames below, with or without a summary, with either flag
AlertManagerSendAlerts ==
    /\ UNCHANGED ingest_vars
    /\ recon_pc = "start"
    /\ \E alerts_df \in {<<>>, Indexed(view), CriticalAlerts(Indexed(view), threshold)},
          summary \in {NoSummary, SummaryStats(Indexed(view), threshold)},
          flag \in BOOLEAN,
          outcome \in EmailOutcomes :
        LET sent == SendAlerts(alerts_df, summary, flag, outcome)
        IN  /\ critical_alerts' = alerts_df
            /\ summary_stats' = summary
            /\ email_flag' = flag
            /\ email_result' = outcome
            /\ out' = out \o sent.log
            /\ email_attempts' = email_attempts + sent.emails
            /\ recon_pc' = IF sent.raised THEN "call_raised" ELSE "called"
    /\ UNCHANGED <<view, threshold>>

ReconNext ==
    \/ RunReconciliation
    \/ RunReconciliationQueryFails
    \/ AlertManagerSendAlerts

\* ========================================================================
\* ingest.py
\* ========================================================================
MaxRows      == 3      \* data rows of a source file
MaxRuns      == 2      \* invocations of run_pipeline
MaxChunkSize == 2      \* INGEST_CHUNK_SIZE ranges over 1..MaxChunkSize

\* ------------------------------------------------------------------------
\* Cell values.  A numeric cell is Num(n); an empty cell is NaN (None and
\* SQL NULL once bound as a parameter); a cell that read_csv could not parse
\* as a number stays text, Str(chars).
\* ------------------------------------------------------------------------
Num(n)  == [t |-> "num", v |-> n, s |-> <<>>]
Str(cs) == [t |-> "str", v |-> 0, s |-> cs]
NaN     == [t |-> "nan", v |-> 0, s |-> <<>>]
TypeError == [t |-> "TypeError", v |-> 0, s |-> <<>>]

IsNa(c) == c.t = "nan"

Digits == <<"0","1","2","3","4","5","6","7","8","9">>
DigitVal(c) == CHOOSE d \in 0..9 : Digits[d + 1] = c
IsDigits(cs) == cs # <<>> /\ \A i \in 1..Len(cs) : \E d \in 0..9 : Digits[d + 1] = cs[i]

RECURSIVE NatText(_)
\* the text of a non-negative number as it stands in the file
NatText(n) ==
    IF n < 10 THEN <<Digits[n + 1]>>
    ELSE NatText(n \div 10) \o <<Digits[(n % 10) + 1]>>

RECURSIVE TextNat(_)
TextNat(cs) ==
    IF Len(cs) = 1 THEN DigitVal(cs[1])
    ELSE TextNat(SubSeq(cs, 1, Len(cs) - 1)) * 10 + DigitVal(cs[Len(cs)])

RECURSIVE Repeat(_, _)
\* Python str * int
Repeat(cs, k) == IF k <= 0 THEN <<>> ELSE cs \o Repeat(cs, k - 1)

\* ------------------------------------------------------------------------
\* Source files.  product stands for every column the upsert only inserts
\* (product, market, direction, counterparty, fee).
\* ------------------------------------------------------------------------
GARBAGE == Str(<<"a","b","c">>)

RawRow(tn, fs, prod, qty, price, date) ==
    [trade_number |-> tn, fill_sequence |-> fs, product |-> prod,
     quantity |-> qty, price |-> price, trade_date_aest |-> date]

\* well-formed rows: a trade, a later version of it with other values in
\* every column, and an incomplete record under another key
CleanRows ==
    { RawRow("T001", 1, "GAS", Num(5), Num(2),  "14/01/2025"),
      RawRow("T001", 1, "PWR", Num(4), Num(3),  "14/07/2025"),
      RawRow("T001", 2, "GAS", NaN,    Num(2),  "14/01/2025") }

\* rows with a missing price, a date that is no date, a date with the wrong
\* separator and a price that is no number
DirtyRows ==
    { RawRow("T001", 2, "GAS", Num(5), NaN,     "14/01/2025"),
      RawRow("T002", 1, "GAS", Num(5), Num(2),  "notadate"),
      RawRow("T002", 1, "GAS", Num(5), Num(2),  "14-01-2025"),
      RawRow("T002", 1, "GAS", Num(5), GARBAGE, "14/01/2025") }

RawRows == CleanRows \cup DirtyRows

NoFile == [exists |-> FALSE, rows |-> <<>>]
Files(rowset) == {[exists |-> TRUE, rows |-> r] : r \in SeqsUpTo(rowset, MaxRows)}

\* ------------------------------------------------------------------------
\* pd.read_csv(..., chunksize=CHUNK_SIZE): the i-th chunk (i from 1).  Column
\* types are inferred per chunk: one unparseable price leaves the whole price
\* column of the chunk as text; one empty quantity makes the column float.
\* ------------------------------------------------------------------------
NumChunks(rows, size) == (Len(rows) + size - 1) \div size

ChunkRows(rows, size, i) ==
    SubSeq(rows, (i - 1) * size + 1,
           IF i * size < Len(rows) THEN i * size ELSE Len(rows))

PriceIsObject(chunk) == \E k \in 1..Len(chunk) : chunk[k].price.t = "str"
QuantityIsFloat(chunk) == \E k \in 1..Len(chunk) : IsNa(chunk[k].quantity)

ReadCsvChunk(rows, size, i) ==
    LET raw == ChunkRows(rows, size, i)
        AsRead(c) == IF PriceIsObject(raw) /\ c.t = "num"
                     THEN Str(NatText(c.v)) ELSE c
    IN  [k \in 1..Len(raw) |-> [raw[k] EXCEPT !.price = AsRead(raw[k].price)]]

\* ------------------------------------------------------------------------
\* transform_chunk
\* ------------------------------------------------------------------------
NoneTs == <<>>

\* datetime.strptime(d_str, "%d/%m/%Y") on the date texts of the model;
\* <<>> stands for ValueError
Strptime(d_str) ==
    CASE d_str = "14/01/2025" -> <<2025, 1, 14>>
      [] d_str = "14/07/2025" -> <<2025, 7, 14>>
      [] OTHER                -> <<>>

\* Australia/Sydney: UTC+11 while daylight saving is in force, else UTC+10
SydneyOffset(ymd) == IF ymd[2] \in {1, 2, 3, 10, 11, 12} THEN 11 ELSE 10

\* to_utc: local midnight as a UTC instant <<y, m, d, h>>, None on bad input
ToUtc(d_str) ==
    LET dt == Strptime(d_str) IN
    IF dt = <<>> THEN NoneTs
    ELSE <<dt[1], dt[2], dt[3] - 1, 24 - SydneyOffset(dt)>>

\* defective variant: only the price is looked at
IsCompletePriceOnly(price, quantity) == ~IsNa(price)
IsComplete(price, quantity) == ~(IsNa(price) \/ IsNa(quantity))

\* defective variant: a missing operand counts as zero
TotalValueZeroFill(price, quantity, qty_float) ==
    IF price.t = "str"
    THEN IF qty_float THEN TypeError ELSE Str(Repeat(price.s, quantity.v))
    ELSE Num(price.v * quantity.v)
\* price * quantity of one row; qty_float: the quantity column is float64
TotalValue(price, quantity, qty_float) ==
    IF price.t = "str"
    THEN IF qty_float THEN TypeError ELSE Str(Repeat(price.s, quantity.v))
    ELSE IF IsNa(price) \/ IsNa(quantity) THEN NaN
    ELSE Num(price.v * quantity.v)

TransformChunk(df) ==
    [k \in 1..Len(df) |->
        [trade_number    |-> df[k].trade_number,
         fill_sequence   |-> df[k].fill_sequence,
         product         |-> df[k].product,
         quantity        |-> df[k].quantity,
         price           |-> df[k].price,
         trade_date_aest |-> df[k].trade_date_aest,
         is_complete     |-> IsComplete(df[k].price, df[k].quantity),
         trade_date_utc  |-> ToUtc(df[k].trade_date_aest),
         total_value     |-> TotalValue(df[k].price, df[k].quantity,
                                        QuantityIsFloat(df))]]

\* the multiplication raises for some row of the chunk
TransformRaises(df) ==
    \E k \in 1..Len(df) :
        TotalValue(df[k].price, df[k].quantity, QuantityIsFloat(df)) = TypeError

\* the warnings run_pipeline logs for the incomplete records of a chunk
IncompleteWarnings(processed_chunk) ==
    LET Incomplete(row) == ~row.is_complete
    IN  [k \in 1..Len(SelectSeq(processed_chunk, Incomplete)) |-> "INCOMPLETE_TRADE"]

\* ------------------------------------------------------------------------
\* load_chunk: the statement and the table stg.clearing_trades
\* ------------------------------------------------------------------------
\* TO_DATE(:trade_date_aest, 'DD/MM/YYYY'); separators are matched loosely,
\* text that is no date is an error, <<"error">>
PgToDate(d_str) ==
    CASE d_str = "14/01/2025" -> <<2025, 1, 14>>
      [] d_str = "14/07/2025" -> <<2025, 7, 14>>
      [] d_str = "14-01-2025" -> <<2025, 1, 14>>
      [] OTHER                -> <<"error">>

\* a parameter bound to a numeric column
PgNumericOk(c) == c.t \in {"num", "nan"} \/ (c.t = "str" /\ IsDigits(c.s))
PgNumeric(c)   == IF c.t = "str" THEN Num(TextNat(c.s)) ELSE c

PgAccepts(params) ==
    /\ PgToDate(params.trade_date_aest) # <<"error">>
    /\ PgNumericOk(params.price)
    /\ PgNumericOk(params.quantity)
    /\ PgNumericOk(params.total_value)

SameKey(stored, params) ==
    /\ stored.trade_number = params.trade_number
    /\ stored.fill_sequence = params.fill_sequence

\* the row an INSERT creates; updated_at is not in the column list and takes
\* the column default, which the table definition (not part of the sources)
\* sets: NULL (0 here) or the time of the transaction
InsertedRow(params, ts, dflt) ==
    [trade_number    |-> params.trade_number,
     fill_sequence   |-> params.fill_sequence,
     product         |-> params.product,
     quantity        |-> PgNumeric(params.quantity),
     price           |-> PgNumeric(params.price),
     trade_date_aest |-> PgToDate(params.trade_date_aest),
     trade_date_utc  |-> params.trade_date_utc,
     is_complete     |-> params.is_complete,
     total_value     |-> PgNumeric(params.total_value),
     updated_at      |-> IF dflt = "NOW" THEN ts ELSE 0]

\* DO UPDATE SET ... of the conflicting row
UpdatedRow(stored, params, ts) ==
    [stored EXCEPT !.price       = PgNumeric(params.price),
                   !.quantity    = PgNumeric(params.quantity),
                   !.total_value = PgNumeric(params.total_value),
                   !.is_complete = params.is_complete,
                   !.updated_at  = ts]

\* defective variant: no conflict handling
UpsertInsertOnly(table, params, ts, dflt) ==
    Append(table, InsertedRow(params, ts, dflt))
\* defective variant: the update overwrites every column
UpsertAllColumns(table, params, ts, dflt) ==
    IF \E k \in 1..Len(table) : SameKey(table[k], params)
    THEN [k \in 1..Len(table) |->
             IF SameKey(table[k], params)
             THEN [InsertedRow(params, ts, dflt) EXCEPT !.updated_at = ts]
             ELSE table[k]]
    ELSE Append(table, InsertedRow(params, ts, dflt))
\* defective variant: the update adds the quantity to the stored one
UpsertAccumulate(table, params, ts, dflt) ==
    IF \E k \in 1..Len(table) : SameKey(table[k], params)
    THEN [k \in 1..Len(table) |->
             IF SameKey(table[k], params)
             THEN [UpdatedRow(table[k], params, ts) EXCEPT
                     !.quantity = IF table[k].quantity.t = "num"
                                     /\ PgNumeric(params.quantity).t = "num"
                                  THEN Num(table[k].quantity.v
                                           + PgNumeric(params.quantity).v)
                                  ELSE PgNumeric(params.quantity)]
             ELSE table[k]]
    ELSE Append(table, InsertedRow(params, ts, dflt))
\* INSERT ... ON CONFLICT (trade_number, fill_sequence) DO UPDATE
Upsert(table, params, ts, dflt) ==
    IF \E k \in 1..Len(table) : SameKey(table[k], params)
    THEN [k \in 1..Len(table) |->
             IF SameKey(table[k], params)
             THEN UpdatedRow(table[k], params, ts)
             ELSE table[k]]
    ELSE Append(table, InsertedRow(params, ts, dflt))

\* defective variant: the failure undoes the whole run
RollbackToRunStart(committed, working) == db_start
\* defective variant: the rows written so far stay
RollbackKeepsWritten(committed, working) == working
\* what other sessions see once the `with engine.begin()` block is left by
\* an exception: the transaction is rolled back
Rollback(committed, working) == committed

\* defective variant: the loop goes on with the next chunk
OnPipelineExceptionContinue == [pc |-> "read", exit_code |-> 0]
\* the `except Exception` of run_pipeline: log critical, sys.exit(1)
OnPipelineException == [pc |-> "exited", exit_code |-> 1]

\* source files are either well-formed and ingested up to MaxRuns times in
\* a row, or may hold malformed records and are ingested once
IngestInit ==
    /\ \/ catalog = CleanRows /\ run_limit = MaxRuns
       \/ catalog = RawRows /\ run_limit = 1
    /\ file = NoFile
    /\ chunk_size \in 1..MaxChunkSize
    /\ ts_default \in {"NULL", "NOW"}
    /\ db = <<>>
    /\ txn = <<>>
    /\ pc = "idle"
    /\ chunk_no = 0
    /\ processed = <<>>
    /\ row_no = 0
    /\ total_rows = 0
    /\ exit_code = 0
    /\ ingest_log = <<>>
    /\ now = 0
    /\ runs = 0
    /\ db_start = <<>>
    /\ same_file = FALSE
    /\ prev_ok = FALSE
    /\ fault = FALSE
    /\ failed_chunk = 0

\* the run that is ending read its file and persisted every chunk
RunSucceeded ==
    /\ pc = "exited" /\ exit_code = 0 /\ file.exists
    /\ chunk_no = NumChunks(file.rows, chunk_size)

\* a new process calls run_pipeline(file_path)
Invoke(f) ==
    /\ pc \in {"idle", "exited"}
    /\ runs < run_limit
    /\ runs' = runs + 1
    /\ file' = f
    /\ same_file' = (runs > 0 /\ f = file)
    /\ prev_ok' = RunSucceeded
    /\ db_start' = db
    /\ chunk_no' = 0
    /\ processed' = <<>>
    /\ row_no' = 0
    /\ total_rows' = 0
    /\ fault' = FALSE
    /\ failed_chunk' = 0
    /\ txn' = <<>>
    /\ UNCHANGED <<catalog, run_limit, chunk_size, ts_default, db, now>>

\* os.path.exists(file_path) is false: log an error and return
RunPipelineFileNotFound ==
    /\ UNCHANGED recon_vars
    /\ Invoke(NoFile)
    /\ ingest_log' = <<"FILE_NOT_FOUND">>
    /\ pc' = "exited"
    /\ exit_code' = 0

RunPipelineStart ==
    /\ UNCHANGED recon_vars
    /\ \E f \in Files(catalog) :
        /\ Invoke(f)
        /\ ingest_log' = <<"STARTING_INGEST">>
        /\ pc' = "read"
        /\ exit_code' = 0

\* the reader is exhausted: the loop ends and run_pipeline returns
RunPipelineComplete ==
    /\ UNCHANGED recon_vars
    /\ pc = "read"
    /\ chunk_no = NumChunks(file.rows, chunk_size)
    /\ ingest_log' = ingest_log \o <<"INGESTION_COMPLETE">>
    /\ pc' = "exited"
    /\ UNCHANGED <<catalog, run_limit, file, chunk_size, ts_default, db, txn, chunk_no, processed,
                   row_no, total_rows, exit_code, now, runs, db_start,
                   same_file, prev_ok, fault, failed_chunk>>

\* one iteration of the loop up to the first statement of load_chunk:
\* read, transform, warn about incomplete records, engine.begin()
NextChunk ==
    /\ UNCHANGED recon_vars
    /\ pc = "read"
    /\ chunk_no < NumChunks(file.rows, chunk_size)
    /\ ~TransformRaises(ReadCsvChunk(file.rows, chunk_size, chunk_no + 1))
    /\ LET chunk == ReadCsvChunk(file.rows, chunk_size, chunk_no + 1)
           processed_chunk == TransformChunk(chunk)
       IN  /\ processed' = processed_chunk
           /\ ingest_log' = ingest_log \o <<"PROCESSING_CHUNK">>
                            \o IncompleteWarnings(processed_chunk)
    /\ chunk_no' = chunk_no + 1
    /\ row_no' = 0
    /\ txn' = db
    /\ now' = now + 1
    /\ pc' = "exec"
    /\ UNCHANGED <<catalog, run_limit, file, chunk_size, ts_default, db,
                   total_rows, exit_code, runs, db_start, same_file, prev_ok,
                   fault, failed_chunk>>

\* transform_chunk raises: the handler of run_pipeline ends the run
NextChunkTransformRaises ==
    /\ UNCHANGED recon_vars
    /\ pc = "read"
    /\ chunk_no < NumChunks(file.rows, chunk_size)
    /\ TransformRaises(ReadCsvChunk(file.rows, chunk_size, chunk_no + 1))
    /\ chunk_no' = chunk_no + 1
    /\ failed_chunk' = chunk_no + 1
    /\ ingest_log' = ingest_log \o <<"PROCESSING_CHUNK", "PIPELINE_FAILED">>
    /\ pc' = OnPipelineException.pc
    /\ exit_code' = OnPipelineException.exit_code
    /\ UNCHANGED <<catalog, run_limit, file, chunk_size, ts_default, db, txn, processed, row_no,
                   total_rows, now, runs, db_start, same_file, prev_ok, fault>>

\* conn.execute(upsert_sql, params) for the next row of the chunk
ExecuteRow ==
    /\ UNCHANGED recon_vars
    /\ pc = "exec"
    /\ row_no < Len(processed)
    /\ PgAccepts(processed[row_no + 1])
    /\ txn' = Upsert(txn, processed[row_no + 1], now, ts_default)
    /\ row_no' = row_no + 1
    /\ UNCHANGED <<catalog, run_limit, file, chunk_size, ts_default, db, pc, chunk_no, processed,
                   total_rows, exit_code, ingest_log, now, runs, db_start,
                   same_file, prev_ok, fault, failed_chunk>>

\* load_chunk is left by an exception: rollback, log, re-raise; the handler
\* of run_pipeline logs and exits
LoadAborted ==
    /\ db' = Rollback(db, txn)
    /\ txn' = <<>>
    /\ failed_chunk' = chunk_no
    /\ ingest_log' = ingest_log \o <<"DATABASE_ERROR", "PIPELINE_FAILED">>
    /\ pc' = OnPipelineException.pc
    /\ exit_code' = OnPipelineException.exit_code
    /\ UNCHANGED <<catalog, run_limit, file, chunk_size, ts_default, chunk_no, processed, row_no,
                   total_rows, now, runs, db_start, same_file, prev_ok>>

\* the server rejects the parameters of the next row
ExecuteRowRejected ==
    /\ UNCHANGED recon_vars
    /\ pc = "exec"
    /\ row_no < Len(processed)
    /\ ~PgAccepts(processed[row_no + 1])
    /\ LoadAborted
    /\ UNCHANGED fault

\* the storage layer fails (connect, execute or commit)
StorageFailure ==
    /\ UNCHANGED recon_vars
    /\ pc = "exec"
    /\ LoadAborted
    /\ fault' = TRUE

\* the with-block ends: commit; back in run_pipeline, total_rows is updated
Commit ==
    /\ UNCHANGED recon_vars
    /\ pc = "exec"
    /\ row_no = Len(processed)
    /\ db' = txn
    /\ txn' = <<>>
    /\ total_rows' = total_rows + Len(processed)
    /\ pc' = "read"
    /\ UNCHANGED <<catalog, run_limit, file, chunk_size, ts_default, chunk_no, processed, row_no,
                   exit_code, ingest_log, now, runs, db_start, same_file,
                   prev_ok, fault, failed_chunk>>

IngestNext ==
    \/ RunPipelineFileNotFound
    \/ RunPipelineStart
    \/ RunPipelineComplete
    \/ NextChunk
    \/ NextChunkTransformRaises
    \/ ExecuteRow
    \/ ExecuteRowRejected
    \/ StorageFailure
    \/ Commit

\* ------------------------------------------------------------------------
\* Specifications
\* ------------------------------------------------------------------------
ReconIdle ==
    /\ view = <<>> /\ threshold = 0 /\ recon_pc = "off"
    /\ summary_stats = NoStats /\ critical_alerts = <<>>
    /\ out = <<>> /\ email_attempts = 0
    /\ email_flag = FALSE /\ email_result = "none"

IngestIdle ==
    /\ catalog = {} /\ run_limit = 0
    /\ file = NoFile /\ chunk_size = 1 /\ ts_default = "NULL"
    /\ db = <<>> /\ txn = <<>> /\ pc = "off" /\ chunk_no = 0
    /\ processed = <<>> /\ row_no = 0 /\ total_rows = 0 /\ exit_code = 0
    /\ ingest_log = <<>> /\ now = 0 /\ runs = 0 /\ db_start = <<>>
    /\ same_file = FALSE /\ prev_ok = FALSE /\ fault = FALSE
    /\ failed_chunk = 0

InitRecon  == ReconInit /\ IngestIdle
InitIngest == IngestInit /\ ReconIdle

SpecRecon  == InitRecon /\ [][ReconNext]_vars
SpecIngest == InitIngest /\ [][IngestNext]_vars

\* ========================================================================
\* Properties
\* ========================================================================
MissingStatuses == {S_MISSING_IN_BANK, S_MISSING_IN_EXCHANGE}

InCriticalSubset(i) ==
    \E j \in 1..Len(critical_alerts) : critical_alerts[j].idx = i

\* C1: once run_reconciliation has handed the critical subset to the
\* dispatcher, row i of the dataset is in the subset exactly when
\* |value_diff| >= threshold or its status is one of the two missing-side
\* statuses; the subset holds each such row once and unaltered.
C1_CriticalFilter ==
    recon_pc = "done" =>
        /\ \A i \in 1..Len(view) :
              InCriticalSubset(i) <=>
                  \/ view[i].amount_diff >= threshold
                  \/ -view[i].amount_diff >= threshold
                  \/ view[i].status \in MissingStatuses
        /\ \A j \in 1..Len(critical_alerts) :
              /\ critical_alerts[j].idx \in 1..Len(view)
              /\ critical_alerts[j].status = view[critical_alerts[j].idx].status
              /\ critical_alerts[j].amount_diff
                     = view[critical_alerts[j].idx].amount_diff
              /\ \A k \in 1..Len(critical_alerts) :
                     critical_alerts[k].idx = critical_alerts[j].idx => k = j

\* a missing-side row with diff 0 is in the subset although the threshold is
\* positive, next to a MATCHED or DISCREPANCY row below the threshold that
\* is left out
C1_Witness ==
    /\ recon_pc = "done"
    /\ threshold > 0
    /\ \E i \in 1..Len(view) :
          /\ view[i].status \in MissingStatuses
          /\ view[i].amount_diff = 0
          /\ InCriticalSubset(i)
    /\ \E i \in 1..Len(view) :
          /\ view[i].status \in {S_MATCHED, S_DISCREPANCY}
          /\ view[i].amount_diff # 0
          /\ ~InCriticalSubset(i)

RECURSIVE SumAbsDiff(_, _)
\* |value_diff| summed over the first n rows
SumAbsDiff(rows, n) ==
    IF n = 0 THEN 0
    ELSE SumAbsDiff(rows, n - 1)
         + (IF rows[n].amount_diff < 0 THEN -rows[n].amount_diff
            ELSE rows[n].amount_diff)

\* C2: total_discrepancy_amount of the summary is the sum of |value_diff|
\* over all rows of the dataset, whatever the threshold and hence whatever
\* the critical subset.
C2_TotalOverAllRows ==
    recon_pc = "done" =>
        summary_stats.total_discrepancy_amount = SumAbsDiff(view, Len(view))

\* a run whose critical subset leaves out a row with a non-zero diff
C2_Witness ==
    /\ recon_pc = "done"
    /\ summary_stats.critical_alerts < summary_stats.total_contracts
    /\ summary_stats.total_discrepancy_amount
           > SumAbsDiff(critical_alerts, Len(critical_alerts))

\* ------------------------------------------------------------------------
\* alert dispatch
\* ------------------------------------------------------------------------
RECURSIVE Occurrences(_, _)
\* how often entry x is in the log
Occurrences(log, x) ==
    IF log = <<>> THEN 0
    ELSE (IF Head(log) = x THEN 1 ELSE 0) + Occurrences(Tail(log), x)

\* send_alerts has returned, inside a run or called on its own
DispatcherReturned == recon_pc \in {"done", "called"}

ReportEntries == {"CRITICAL_ALERTS_HEADER", "ALERT_ROW", "RISK_LEAKAGE",
                  "RISK_OVERPAYMENT", "VALUE_MISMATCH"}
EmailEntries  == {"EMAIL_DISABLED", "NO_ALERTS_TO_EMAIL",
                  "SMTP_CREDENTIALS_MISSING", "EMAIL_SENT", "EMAIL_FAILED",
                  "EMAIL_ALERTS_FAILED"}

\* C11: when the frame handed to send_alerts is empty, the log holds the
\* "no critical alerts" message once, no alert report, and send_email_alerts
\* is not called, whatever the flag and the summary given.
C11_EmptySubsetNoNotification ==
    (DispatcherReturned /\ critical_alerts = <<>>) =>
        /\ Occurrences(out, "NO_CRITICAL_ALERTS") = 1
        /\ email_attempts = 0
        /\ \A k \in 1..Len(out) : out[k] \notin ReportEntries \cup EmailEntries

\* send_alerts called with an empty frame, the flag set and a summary given,
\* where the e-mail would have gone out
C11_Witness ==
    /\ recon_pc = "called"
    /\ critical_alerts = <<>>
    /\ email_flag
    /\ Truthy(summary_stats)
    /\ email_result = "sent"
    /\ out = <<"NO_CRITICAL_ALERTS">>
    /\ email_attempts = 0

\* the run called send_email_alerts and the message was not delivered
DeliveryFailed ==
    /\ email_attempts > 0
    /\ email_result \in {"no_credentials", "smtp_failed", "raised"}

\* C12: a run whose e-mail delivery failed still ends normally: the console
\* report is in the log with one entry per critical row, the summary is
\* printed last, no run failure is logged, and the summary holds the values
\* of a run over the same data whose delivery succeeded.
C12_DeliveryFailureNotFatal ==
    (recon_pc \in {"done", "failed"} /\ DeliveryFailed) =>
        /\ recon_pc = "done"
        /\ Occurrences(out, "RECONCILIATION_FAILED") = 0
        /\ Occurrences(out, "CRITICAL_ALERTS_HEADER") = 1
        /\ Occurrences(out, "ALERT_ROW") = Len(critical_alerts)
        /\ out[Len(out)] = "RECONCILIATION_SUMMARY"
        /\ summary_stats = SummaryStats(Indexed(view), threshold)

\* a run in which an exception left send_email_alerts: the warning is
\* logged after the report and the summary follows
C12_Witness ==
    /\ recon_pc = "done"
    /\ email_result = "raised"
    /\ email_attempts = 1
    /\ critical_alerts # <<>>
    /\ Occurrences(out, "EMAIL_ALERTS_FAILED") = 1
    /\ out[Len(out)] = "RECONCILIATION_SUMMARY"
    /\ summary_stats.critical_alerts = Len(critical_alerts)

\* C13: a run whose query failed logs the failure and emits no alert
\* report, no "no critical alerts" message, no summary and no e-mail.
C13_QueryFailureCaught ==
    recon_pc = "query_failed" =>
        /\ out[Len(out)] = "RECONCILIATION_FAILED"
        /\ Occurrences(out, "RECONCILIATION_FAILED") = 1
        /\ \A k \in 1..Len(out) :
              out[k] \notin ReportEntries \cup EmailEntries
                            \cup {"NO_CRITICAL_ALERTS", "RECONCILIATION_SUMMARY"}
        /\ email_attempts = 0
        /\ summary_stats = NoStats
        /\ critical_alerts = <<>>

\* the query fails over a view that holds a missing-side row, which a run
\* would have reported
C13_Witness ==
    /\ recon_pc = "query_failed"
    /\ \E i \in 1..Len(view) : view[i].status \in MissingStatuses
    /\ out = <<"STARTING_RECONCILIATION", "RECONCILIATION_FAILED">>

\* the label the status stands for
RiskLabel(status) ==
    IF status = S_MISSING_IN_BANK THEN <<"RISK_LEAKAGE">>
    ELSE IF status = S_MISSING_IN_EXCHANGE THEN <<"RISK_OVERPAYMENT">>
    ELSE IF status = S_DISCREPANCY THEN <<"VALUE_MISMATCH">>
    ELSE <<>>

RECURSIVE ExpectedRows(_)
ExpectedRows(rows) ==
    IF rows = <<>> THEN <<>>
    ELSE <<"ALERT_ROW">> \o RiskLabel(Head(rows).status)
         \o ExpectedRows(Tail(rows))

\* the entries of the log that come before the console report
BeforeReport == IF recon_pc = "done" THEN 1 ELSE 0

\* C14: in the console report every row is followed by the label of its
\* status and by nothing else: leakage for MISSING_IN_BANK, overpayment for
\* MISSING_IN_EXCHANGE, value mismatch for DISCREPANCY, none for MATCHED.
C14_RiskLabelByStatus ==
    (DispatcherReturned /\ critical_alerts # <<>>) =>
        LET expected == <<"CRITICAL_ALERTS_HEADER">> \o ExpectedRows(critical_alerts)
        IN  /\ Len(out) >= BeforeReport + Len(expected)
            /\ SubSeq(out, BeforeReport + 1, BeforeReport + Len(expected))
                   = expected
            /\ \A k \in (BeforeReport + Len(expected) + 1)..Len(out) :
                   out[k] \notin ReportEntries

\* a report over a MATCHED row, which gets no label, followed by a
\* MISSING_IN_EXCHANGE row, which gets the overpayment label
C14_Witness ==
    /\ recon_pc = "called"
    /\ Len(critical_alerts) = 2
    /\ critical_alerts[1].status = S_MATCHED
    /\ critical_alerts[2].status = S_MISSING_IN_EXCHANGE
    /\ SubSeq(out, 1, 4) = <<"CRITICAL_ALERTS_HEADER", "ALERT_ROW",
                             "ALERT_ROW", "RISK_OVERPAYMENT">>

\* ------------------------------------------------------------------------
\* ingestion
\* ------------------------------------------------------------------------
NoDuplicateKeys(table) ==
    \A i, j \in 1..Len(table) : SameKey(table[i], table[j]) => i = j

WithoutTimestamp(table) ==
    [k \in 1..Len(table) |-> [table[k] EXCEPT !.updated_at = 0]]

\* the run that just ended and the one before it both persisted every chunk
\* of the same, unchanged file
IngestedTwice == RunSucceeded /\ same_file /\ prev_ok

\* C3 as stated: after the second of two runs on the same unchanged file the
\* table is, row by row and column by column, what it was after the first.
C3_SameStoredState ==
    IngestedTwice => db = db_start

\* C3, amended: after the second of two runs on the same unchanged file the
\* table has no duplicate key and is, row by row and in every column but
\* updated_at, what it was after the first run.
C3_IdempotentButTimestamp ==
    IngestedTwice =>
        /\ NoDuplicateKeys(db)
        /\ WithoutTimestamp(db) = WithoutTimestamp(db_start)

\* the second run has rewritten stored rows: the table differs from the one
\* the first run left, in updated_at only
C3_Witness ==
    /\ IngestedTwice
    /\ Len(db) > 1
    /\ db # db_start
    /\ WithoutTimestamp(db) = WithoutTimestamp(db_start)

\* index of the last row of the file with the key of row i
LastIndexOfKey(rows, i) ==
    CHOOSE n \in 1..Len(rows) :
        /\ SameKey(rows[n], rows[i])
        /\ \A m \in (n + 1)..Len(rows) : ~SameKey(rows[m], rows[i])

BothPresent(r) == r.price.t = "num" /\ r.quantity.t = "num"

\* the stored row holds price, quantity, total_value and is_complete of the
\* file row r
HoldsMutableValues(stored, r) ==
    /\ stored.price = r.price
    /\ stored.quantity = r.quantity
    /\ stored.is_complete = BothPresent(r)
    /\ stored.total_value =
           (IF BothPresent(r) THEN Num(r.price.v * r.quantity.v) ELSE NaN)

\* the stored row holds the values of the file row r in every column
HoldsAllValues(stored, r) ==
    /\ HoldsMutableValues(stored, r)
    /\ stored.product = r.product
    /\ stored.trade_date_aest = Strptime(r.trade_date_aest)
    /\ stored.trade_date_utc = ToUtc(r.trade_date_aest)

StoredIn(table, r) == \E k \in 1..Len(table) : SameKey(table[k], r)

\* C4 as stated: the table never holds two rows of one key, and after a run
\* that persisted every chunk, each key of the file that was stored before
\* the run holds the file's values (those of its last row in the file).
C4_ConvergesToFile ==
    /\ NoDuplicateKeys(db)
    /\ RunSucceeded =>
          \A i \in 1..Len(file.rows) :
              StoredIn(db_start, file.rows[i]) =>
                  \E k \in 1..Len(db) :
                      /\ SameKey(db[k], file.rows[i])
                      /\ HoldsAllValues(db[k],
                             file.rows[LastIndexOfKey(file.rows, i)])

\* C4, amended: the table never holds two rows of one key, and after a run
\* that persisted every chunk, each key of the file is stored with the
\* price, quantity, total_value and is_complete of its last row in the file.
C4_ConvergesMutableColumns ==
    /\ NoDuplicateKeys(db)
    /\ RunSucceeded =>
          \A i \in 1..Len(file.rows) :
              \E k \in 1..Len(db) :
                  /\ SameKey(db[k], file.rows[i])
                  /\ HoldsMutableValues(db[k],
                         file.rows[LastIndexOfKey(file.rows, i)])

\* a run has replaced the stored price of a key by the one of the new file
C4_Witness ==
    /\ RunSucceeded
    /\ \E i \in 1..Len(file.rows) : \E k \in 1..Len(db_start) :
          /\ SameKey(db_start[k], file.rows[i])
          /\ LastIndexOfKey(file.rows, i) = i
          /\ db_start[k].price # file.rows[i].price
          /\ \E n \in 1..Len(db) :
                /\ SameKey(db[n], file.rows[i])
                /\ db[n].price = file.rows[i].price

RECURSIVE ApplyBatch(_, _, _, _)
\* the table after every row of a batch has been upserted
ApplyBatch(table, batch, ts, dflt) ==
    IF batch = <<>> THEN table
    ELSE ApplyBatch(Upsert(table, Head(batch), ts, dflt), Tail(batch), ts, dflt)

\* C5: the table other sessions see changes only when load_chunk returns,
\* and then by the whole batch at once; a step that ends load_chunk with an
\* error leaves the table as it was before the batch.
C5_BatchAtomic ==
    [][db' # db =>
          /\ pc = "exec" /\ pc' = "read"
          /\ db' = ApplyBatch(db, processed, now, ts_default)]_vars

\* the first batch of a run on an empty table failed after at least one of
\* its rows had been written, and the table is still empty
C5_Witness ==
    /\ pc = "exited" /\ fault
    /\ failed_chunk = 1
    /\ row_no >= 1 /\ row_no < Len(processed)
    /\ db_start = <<>> /\ db = <<>>

\* C6: once load_chunk has failed for a batch, the run has ended with exit
\* status 1, no transaction is open, and no chunk after the failed one has
\* been taken from the reader.
C6_FailureIsFatal ==
    failed_chunk # 0 =>
        /\ pc = "exited"
        /\ exit_code = 1
        /\ txn = <<>>
        /\ chunk_no = failed_chunk
        /\ total_rows < Len(file.rows)

\* the storage layer failed while a later batch was still in the file
C6_Witness ==
    /\ fault
    /\ failed_chunk # 0
    /\ failed_chunk < NumChunks(file.rows, chunk_size)
    /\ pc = "exited"

\* a record whose date or price text cannot be converted
TransformFails(r) ==
    Strptime(r.trade_date_aest) = <<>> \/ r.price.t = "str"

\* C7: in a run without a storage fault, a record that fails to transform
\* is logged and kept out of the table, every other record of the file is
\* stored, and the run ends normally.
C7_RowFailureIsLocal ==
    (pc = "exited" /\ file.exists /\ ~fault) =>
        /\ exit_code = 0
        /\ failed_chunk = 0
        /\ \A i \in 1..Len(file.rows) :
              IF TransformFails(file.rows[i])
              THEN /\ \E n \in 1..Len(ingest_log) : ingest_log[n] = "ROW_TRANSFORM_FAILED"
                   /\ (\A j \in 1..Len(file.rows) :
                          SameKey(file.rows[j], file.rows[i])
                              => TransformFails(file.rows[j]))
                      => ~StoredIn(db, file.rows[i])
              ELSE StoredIn(db, file.rows[i])

\* C8: every record of a transformed chunk has is_complete true exactly
\* when its price is present and its quantity is present.
C8_IsCompleteIffBothPresent ==
    \A k \in 1..Len(processed) :
        processed[k].is_complete <=>
            (processed[k].price.t # "nan" /\ processed[k].quantity.t # "nan")

\* a transformed chunk holds a record with a price and no quantity, flagged
\* incomplete, and a record with both, flagged complete
C8_Witness ==
    /\ \E k \in 1..Len(processed) :
          /\ processed[k].price.t = "num" /\ processed[k].quantity.t = "nan"
          /\ ~processed[k].is_complete
    /\ \E k \in 1..Len(processed) :
          /\ processed[k].price.t = "num" /\ processed[k].quantity.t = "num"
          /\ processed[k].is_complete

C10_ExitCode ==
    pc = "exited" =>
        /\ exit_code = 0 =>
              /\ file.exists
              /\ failed_chunk = 0
              /\ chunk_no = NumChunks(file.rows, chunk_size)
        /\ (~file.exists \/ failed_chunk # 0) => exit_code # 0

\* the record of row n of the file as load_chunk gets it when the row is
\* read on its own
RowAlone(n) == TransformChunk(ReadCsvChunk(<<file.rows[n]>>, 1, 1))[1]

\* the batch row n of the file belongs to
BatchOf(n) == ((n - 1) \div chunk_size) + 1

\* the run was ended by load_chunk raising in batch failed_chunk
AbortedByPersistence ==
    /\ pc = "exited"
    /\ failed_chunk # 0
    /\ Len(ingest_log) >= 2
    /\ SubSeq(ingest_log, Len(ingest_log) - 1, Len(ingest_log))
           = <<"DATABASE_ERROR", "PIPELINE_FAILED">>

RECURSIVE RowsApplied(_)
\* the table the run started with after the first n rows of the file were
\* applied one by one in file order, each in the transaction of its batch;
\* the transaction of the failed batch began at `now`
RowsApplied(n) ==
    IF n = 0 THEN db_start
    ELSE Upsert(RowsApplied(n - 1), RowAlone(n),
                now - failed_chunk + BatchOf(n), ts_default)

\* C15: when load_chunk fails in batch k, the table is the one the run
\* started with after the rows of batches 1..k-1 were applied in file
\* order: those batches stay committed, and no row of batch k or of a later
\* batch is in it.
C15_CommittedPrefix ==
    AbortedByPersistence =>
        db = RowsApplied((failed_chunk - 1) * chunk_size)

\* the storage layer failed in the second or a later batch, after a row of
\* that batch had been written, and the earlier batches changed the table
C15_Witness ==
    /\ AbortedByPersistence
    /\ fault
    /\ failed_chunk >= 2
    /\ row_no >= 1
    /\ db # db_start
    /\ db # <<>>

\* the columns the DO UPDATE clause does not set
KeptColumns(r) ==
    [trade_number    |-> r.trade_number,
     fill_sequence   |-> r.fill_sequence,
     product         |-> r.product,
     trade_date_aest |-> r.trade_date_aest,
     trade_date_utc  |-> r.trade_date_utc]

\* every record of table `before` is in table `after`, at its place, with
\* the same key, product and dates
KeepsFirstIngestion(before, after) ==
    /\ Len(after) >= Len(before)
    /\ \A k \in 1..Len(before) : KeptColumns(after[k]) = KeptColumns(before[k])

\* C16: no step changes trade_number, fill_sequence, product,
\* trade_date_aest or trade_date_utc of a stored record, neither inside the
\* transaction when an upsert hits its key nor in the committed table; the
\* product column stands for market, direction, counterparty and fee, which
\* the statement treats alike.
C16_KeptColumns ==
    [][ /\ KeepsFirstIngestion(db, db')
        /\ (pc = "exec" /\ pc' = "exec") => KeepsFirstIngestion(txn, txn')
      ]_vars

\* a run has ended well whose file carried, as the last row of a key that
\* was stored before the run, another product and another date than the
\* stored ones, and the stored record took its price and quantity only
C16_Witness ==
    /\ RunSucceeded
    /\ \E i \in 1..Len(file.rows), k \in 1..Len(db_start) :
          /\ SameKey(db_start[k], file.rows[i])
          /\ LastIndexOfKey(file.rows, i) = i
          /\ file.rows[i].product # db_start[k].product
          /\ PgToDate(file.rows[i].trade_date_aest) # db_start[k].trade_date_aest
          /\ db[k].product = db_start[k].product
          /\ db[k].trade_date_aest = db_start[k].trade_date_aest
          /\ db[k].price = PgNumeric(file.rows[i].price)
          /\ db[k].price # db_start[k].price
====
